---------------------------- MODULE Spec2Model ----------------------------
(***************************************************************************)
(* A model of src/app.py, the Tzu Chi disaster assessment tool: the        *)
(* scoring rubric, the key matcher, the scoring engine and the Streamlit   *)
(* script that keeps the assessment in the session state.                  *)
(*                                                                         *)
(* Python values that can meet values of another type are tagged records:  *)
(* PyStr, PyInt, PyDict, PyList and None.  The keys of a score mapping     *)
(* (current_scores, scores_dict) are plain strings and its values plain    *)
(* integers: only canonical identifiers and int() results are stored.      *)
(***************************************************************************)
EXTENDS Integers, Sequences, FiniteSets, TLC

(***************************************************************************)
(* Python values.  A dict is the sequence of its items in insertion order  *)
(* (its keys are distinct); PyList is the empty list.                      *)
(***************************************************************************)
None == [t |-> "None"]
PyStr(s) == [t |-> "str", s |-> s]
PyInt(n) == [t |-> "int", n |-> n]
PyDict(items) == [t |-> "dict", items |-> items]
PyList == [t |-> "list"]

item(k, v) == [k |-> k, v |-> v]

IsStr(v) == v.t = "str"
IsInt(v) == v.t = "int"
IsDict(v) == v.t = "dict"

\* bool(v)
py_bool(v) ==
    CASE v.t = "None" -> FALSE
      [] v.t = "list" -> FALSE
      [] v.t = "dict" -> v.items # << >>
      [] v.t = "int" -> v.n # 0
      [] v.t = "str" -> v.s # ""

\* obj.get(key, default) for a dict obj
dict_get(obj, key, default) ==
    LET hit == {i \in 1..Len(obj.items) : obj.items[i].k = key}
    IN  IF hit = {} THEN default ELSE obj.items[CHOOSE i \in hit : TRUE].v

(***************************************************************************)
(* str methods used by the source.  A str is a TLA+ string; the methods    *)
(* work on its sequence of characters, chars(s).                           *)
(***************************************************************************)
WHITESPACE == {" ", "\t", "\n", "\r"}

LOWER_OF ==
    [A |-> "a", B |-> "b", C |-> "c", D |-> "d", E |-> "e", F |-> "f", G |-> "g",
     H |-> "h", I |-> "i", J |-> "j", K |-> "k", L |-> "l", M |-> "m", N |-> "n",
     O |-> "o", P |-> "p", Q |-> "q", R |-> "r", S |-> "s", T |-> "t", U |-> "u",
     V |-> "v", W |-> "w", X |-> "x", Y |-> "y", Z |-> "z"]

DIGIT_OF ==
    [c \in {"0", "1", "2", "3", "4", "5", "6", "7", "8", "9"} |->
       CHOOSE d \in 0..9 : SubSeq("0123456789", d + 1, d + 1) = c]

chars(s) == [i \in 1..Len(s) |-> SubSeq(s, i, i)]

max_of(S) == CHOOSE i \in S : \A j \in S : j <= i
min_of(S) == CHOOSE i \in S : \A j \in S : i <= j

char_lower(c) == IF c \in DOMAIN LOWER_OF THEN LOWER_OF[c] ELSE c

\* s.lower()
str_lower(cs) == [i \in 1..Len(cs) |-> char_lower(cs[i])]

\* s.replace(".", "")
str_remove_dots(cs) == SelectSeq(cs, LAMBDA c : c # ".")

\* s.strip()
str_strip(cs) ==
    LET black == {i \in 1..Len(cs) : cs[i] \notin WHITESPACE}
    IN  IF black = {} THEN << >> ELSE SubSeq(cs, min_of(black), max_of(black))

\* sub in s
str_in(sub, cs) ==
    \E i \in 1..(Len(cs) - Len(sub) + 1) : SubSeq(cs, i, i + Len(sub) - 1) = sub

\* the decimal digits of n >= 0
int_digits(n) ==
    LET count == CHOOSE d \in 1..10 : n < 10 ^ d /\ (d = 1 \/ n >= 10 ^ (d - 1))
    IN  [i \in 1..count |->
           SubSeq("0123456789", ((n \div (10 ^ (count - i))) % 10) + 1,
                                ((n \div (10 ^ (count - i))) % 10) + 1)]

\* the characters of str(v), for the values a score field holds in the model
py_str(v) ==
    CASE v.t = "str" -> chars(v.s)
      [] v.t = "int" -> IF v.n < 0 THEN << "-" >> \o int_digits(0 - v.n)
                        ELSE int_digits(v.n)
      [] v.t = "None" -> chars("None")
      [] v.t = "list" -> chars("[]")

\* re.search(r'\d+', s): the first run of digits, << >> when there is none
first_digit_run(cs) ==
    LET digits == {i \in 1..Len(cs) : cs[i] \in DOMAIN DIGIT_OF}
        run_from(start) ==
            SubSeq(cs, start,
                   max_of({j \in start..Len(cs) : \A m \in start..j : m \in digits}))
    IN  IF digits = {} THEN << >> ELSE run_from(min_of(digits))

\* int(s) for a non-empty sequence of digits
int_of_digits(run) ==
    LET value[i \in 0..Len(run)] ==
            IF i = 0 THEN 0 ELSE value[i - 1] * 10 + DIGIT_OF[run[i]]
    IN  value[Len(run)]

\* int(v): [exc |-> "", n |-> the int], or the exception raised.  Digit
\* grouping with underscores is not modelled (no value of the model has it).
py_int(v) ==
    LET body == str_strip(chars(v.s))
        signed == body # << >> /\ body[1] \in {"+", "-"}
        unsigned == IF signed THEN Tail(body) ELSE body
        sign == IF signed /\ body[1] = "-" THEN -1 ELSE 1
    IN  CASE v.t = "int" -> [exc |-> "", n |-> v.n]
          [] v.t = "str" ->
               IF unsigned # << >>
                  /\ \A i \in 1..Len(unsigned) : unsigned[i] \in DOMAIN DIGIT_OF
               THEN [exc |-> "", n |-> sign * int_of_digits(unsigned)]
               ELSE [exc |-> "ValueError", n |-> 0]
          [] OTHER -> [exc |-> "TypeError", n |-> 0]

(***************************************************************************)
(* SCORING_FRAMEWORK: the dimensions in dict order, each with its          *)
(* indicators in dict order.  A weight is the decimal literal of the       *)
(* source in thousandths (0.375 is 375).                                   *)
(***************************************************************************)
WEIGHT_SCALE == 1000

\* faulty variant: the weight kept to one decimal only
Ind_truncated(name, weight) ==
    [name |-> name, weight |-> (weight \div 100) * 100]

Ind(name, weight) == [name |-> name, weight |-> weight]

SCORING_FRAMEWORK ==
    << [dim |-> "1. IMPACT",
        indicators |-> << Ind("1.1 People Affected", 375),
                          Ind("1.2 Fatalities", 375),
                          Ind("1.3 People in Need", 450),
                          Ind("1.4 Housing & Building Damage", 150),
                          Ind("1.5 Land Mass Affected", 150) >>],
       [dim |-> "2. HUMANITARIAN CONDITIONS",
        indicators |-> << Ind("2.1 Food Security (IPC Score)", 525),
                          Ind("2.2 WASH / NFI Needs", 300),
                          Ind("2.3 Displacement", 300),
                          Ind("2.4 Vulnerable Groups Proportion", 150),
                          Ind("2.5 Health System", 225) >>],
       [dim |-> "3. COMPLEXITY",
        indicators |-> << Ind("3.1 Access (roads/airports)", 150),
                          Ind("3.2 Security", 150),
                          Ind("3.3 Government Capacity", 100),
                          Ind("3.4 Communications", 100) >>],
       [dim |-> "4. STAKEHOLDER ATTENTION",
        indicators |-> << Ind("4.1 Media Intensity", 250),
                          Ind("4.2 UN/INGO Activation", 200),
                          Ind("4.3 Internal Interest (Tzu Chi)", 550) >>],
       [dim |-> "5. FEASIBILITY & PARTNERSHIPS",
        indicators |-> << Ind("5.1 Local Partnerships", 200),
                          Ind("5.2 Legal & Financing", 200),
                          Ind("5.3 Culture & Faith Alignment", 100) >>] >>

\* every (indicator, details) pair in the order the nested loops visit them
all_indicators ==
    SCORING_FRAMEWORK[1].indicators \o SCORING_FRAMEWORK[2].indicators
    \o SCORING_FRAMEWORK[3].indicators \o SCORING_FRAMEWORK[4].indicators
    \o SCORING_FRAMEWORK[5].indicators

\* framework_keys: the canonical identifiers, in rubric order
framework_keys == [i \in 1..Len(all_indicators) |-> all_indicators[i].name]

SeqRange(s) == {s[i] : i \in 1..Len(s)}

(***************************************************************************)
(* match_score_key(ai_key, framework_keys), for a str ai_key.  The result  *)
(* is PyStr(fk) or None.  A key that is no str raises AttributeError at    *)
(* ai_key.lower(); the callers test match_raises first.                    *)
(***************************************************************************)
match_raises(ai_key) == ~IsStr(ai_key)

\* the first element of keys that satisfies P, as PyStr, or None
first_key(keys, P(_)) ==
    IF \E i \in 1..Len(keys) : P(keys[i])
    THEN PyStr(keys[CHOOSE i \in 1..Len(keys) :
                      P(keys[i]) /\ \A j \in 1..(i - 1) : ~P(keys[j])])
    ELSE None

\* faulty variant: the key is not lower-cased
match_score_key_case_sensitive(ai_key, keys) ==
    LET ai_key_clean == str_strip(str_remove_dots(chars(ai_key.s)))
        tier2(fk) == str_in(ai_key_clean, str_remove_dots(chars(fk)))
        tier3(fk) == str_in(chars(ai_key.s), chars(fk))
    IN  IF ai_key.s \in SeqRange(keys) THEN ai_key
        ELSE IF first_key(keys, tier2) # None THEN first_key(keys, tier2)
        ELSE first_key(keys, tier3)

match_score_key(ai_key, keys) ==
    LET ai_key_lower == str_lower(chars(ai_key.s))
        ai_key_clean == str_strip(str_remove_dots(ai_key_lower))
        tier2(fk) == str_in(ai_key_clean, str_remove_dots(str_lower(chars(fk))))
        tier3(fk) == str_in(ai_key_lower, str_lower(chars(fk)))
    IN  IF ai_key.s \in SeqRange(keys) THEN ai_key
        ELSE IF first_key(keys, tier2) # None THEN first_key(keys, tier2)
        ELSE first_key(keys, tier3)

(***************************************************************************)
(* Natural numbers of any size, as little-endian sequences of limbs in     *)
(* base 2^14 without leading zero limbs (zero is the empty sequence).      *)
(* TLC's integers are 32 bits wide; a double carries 53 significant bits.  *)
(***************************************************************************)
LIMB_BITS == 14
LIMB == 2 ^ LIMB_BITS

limb_at(a, i) == IF i \in 1..Len(a) THEN a[i] ELSE 0

big_trim(a) ==
    LET nonzero == {i \in 1..Len(a) : a[i] # 0}
    IN  IF Len(a) > 0 /\ a[Len(a)] # 0 THEN a
        ELSE IF nonzero = {} THEN << >>
        ELSE SubSeq(a, 1, max_of(nonzero))

\* the number whose i-th limb is a[i], where a[i] < 2^31 may exceed LIMB
big_norm(a) ==
    LET n == Len(a)
        carry[i \in 0..n] ==
            IF i = 0 THEN 0 ELSE ((a[i] + carry[i - 1]) \div LIMB)
    IN  big_trim([i \in 1..(n + 2) |->
                    IF i <= n THEN (a[i] + carry[i - 1]) % LIMB
                    ELSE IF i = n + 1 THEN carry[n] % LIMB
                    ELSE carry[n] \div LIMB])

big(n) == big_norm(<< n >>)

big_add(a, b) ==
    LET n == IF Len(a) > Len(b) THEN Len(a) ELSE Len(b)
    IN  big_norm([i \in 1..n |-> limb_at(a, i) + limb_at(b, i)])

\* a * m for 0 <= m <= LIMB
big_mul_small(a, m) == big_norm([i \in 1..Len(a) |-> a[i] * m])

\* a * b for operands of at most 7 limbs (a column sums at most 7 products)
big_mul(a, b) ==
    LET column(k) ==
            LET partial[i \in 0..Len(a)] ==
                    IF i = 0 THEN 0
                    ELSE partial[i - 1] + a[i] * limb_at(b, k + 1 - i)
            IN  partial[Len(a)]
    IN  big_norm([k \in 1..(Len(a) + Len(b)) |-> column(k)])

\* -1, 0 or 1 as a < b, a = b or a > b
big_cmp(a, b) ==
    LET differ == {i \in 1..Len(a) : a[i] # limb_at(b, i)}
    IN  IF Len(a) # Len(b) THEN (IF Len(a) < Len(b) THEN -1 ELSE 1)
        ELSE IF differ = {} THEN 0
        ELSE IF a[max_of(differ)] < b[max_of(differ)] THEN -1 ELSE 1

\* [q |-> a \div d, r |-> a % d] for 0 < d < 2^16, most significant limb first
big_divmod_small(a, d) ==
    LET n == Len(a)
        rem[i \in 1..(n + 1)] ==
            IF i = n + 1 THEN 0 ELSE ((rem[i + 1] * LIMB + a[i]) % d)
    IN  [q |-> big_trim([i \in 1..n |-> (rem[i + 1] * LIMB + a[i]) \div d]),
         r |-> rem[1]]

\* the number of bits of 0 <= n < LIMB
int_bitlen(n) ==
    CHOOSE k \in 0..LIMB_BITS : n < 2 ^ k /\ (k = 0 \/ n >= 2 ^ (k - 1))

big_bitlen(a) ==
    IF a = << >> THEN 0
    ELSE LIMB_BITS * (Len(a) - 1) + int_bitlen(a[Len(a)])

\* a * 2^k
big_shl(a, k) ==
    LET n == k \div LIMB_BITS
        m == 2 ^ (k % LIMB_BITS)
    IN  big_trim([i \in 1..(Len(a) + n + 1) |->
                    IF i <= n THEN 0
                    ELSE ((limb_at(a, i - n) * m) % LIMB)
                         + ((limb_at(a, i - n - 1) * m) \div LIMB)])

\* 2^k
big_pow2(k) == big_shl(<< 1 >>, k)

\* a \div 2^k
big_shr(a, k) ==
    LET n == k \div LIMB_BITS
        m == 2 ^ (k % LIMB_BITS)
    IN  big_trim([i \in 1..(IF Len(a) > n THEN Len(a) - n ELSE 0) |->
                    (limb_at(a, i + n) \div m)
                    + ((limb_at(a, i + n + 1) % m) * (LIMB \div m))])

\* a % 2^k
big_low(a, k) ==
    LET n == k \div LIMB_BITS
        m == 2 ^ (k % LIMB_BITS)
    IN  big_trim([i \in 1..(n + 1) |->
                    IF i <= n THEN limb_at(a, i) ELSE limb_at(a, i) % m])

\* a / 2^k rounded to the nearest integer, ties to even, for k > 0; sticky
\* says that the exact value lies strictly above a (a was itself truncated)
big_shr_rne(a, k, sticky) ==
    LET round(q, c) ==
            IF c > 0 \/ (c = 0 /\ (sticky \/ limb_at(q, 1) % 2 = 1))
            THEN big_add(q, << 1 >>)
            ELSE q
    IN  IF k = 0 THEN a
        ELSE round(big_shr(a, k), big_cmp(big_low(a, k), big_pow2(k - 1)))

(***************************************************************************)
(* IEEE 754 doubles, for the non-negative values this program computes.    *)
(* Every double met here (a weight, score / 5.0, their product, a running  *)
(* total below 8) is a multiple of 2^-58, the unit in the last place of    *)
(* the smallest of them, 0.2 * 0.1; a double is modelled as that multiple. *)
(***************************************************************************)
DBL_UNIT == 58
DBL_PRECISION == 53
GUARD_BITS == 64

\* x is a number of units 2^-(DBL_UNIT + e), at least 2^-6 unless e = 0;
\* the nearest double (ties to even), in units 2^-DBL_UNIT
fl(x, e, sticky) ==
    LET excess(len) == IF len > DBL_PRECISION THEN len - DBL_PRECISION ELSE 0
        rounded(k) == big_shl(big_shr_rne(x, k, sticky), k - e)
    IN  rounded(excess(big_bitlen(x)))

\* the double nearest to n / d: a decimal literal, or int / float
dbl_ratio(n, d) ==
    LET nearest(dm) == fl(dm.q, GUARD_BITS, dm.r # 0)
    IN  nearest(big_divmod_small(big_shl(big(n), DBL_UNIT + GUARD_BITS), d))

dbl_mul(a, b) == fl(big_mul(a, b), DBL_UNIT, FALSE)

dbl_add(a, b) == fl(big_add(a, b), 0, FALSE)

\* float(n) for a small integer n >= 0
dbl_int(n) == big_shl(big(n), DBL_UNIT)

\* faulty variant: a strict comparison
dbl_gt(a, b) == big_cmp(a, b) > 0

dbl_ge(a, b) == big_cmp(a, b) >= 0

big_to_int(a) == limb_at(a, 1) + LIMB * limb_at(a, 2)

\* round(a, 2) in hundredths: Python rounds the exact binary value, ties to even
round2(a) == big_to_int(big_shr_rne(big_mul_small(a, 100), DBL_UNIT, FALSE))

(***************************************************************************)
(* calculate_final_metrics(scores_dict): scores_dict is a function from    *)
(* keys to ints.  The doubles are kept in units of 2^-58, the two rounded  *)
(* results in hundredths.                                                  *)
(***************************************************************************)
DEFAULT_SCORE == 3

\* scores_dict.get(ind_name, 3)
scores_get(scores_dict, ind_name, default) ==
    IF ind_name \in DOMAIN scores_dict THEN scores_dict[ind_name] ELSE default

\* the scores whose contributions are tabulated below
MaxScoreInput == 6
TabulatedScores == 0..MaxScoreInput
TabulatedWeights == {all_indicators[i].weight : i \in 1..Len(all_indicators)}

\* faulty variant: the score is not divided by 5.0
product_unscaled(score, weight) ==
    dbl_mul(dbl_int(score), dbl_ratio(weight, WEIGHT_SCALE))

\* (score / 5.0) * weight
product(score, weight) ==
    dbl_mul(dbl_ratio(score, 5), dbl_ratio(weight, WEIGHT_SCALE))

\* the products of the tabulated scores, evaluated once
PRODUCTS ==
    [score \in TabulatedScores |->
       [weight \in TabulatedWeights |-> product(score, weight)]]

contribution(score, weight) ==
    IF score \in TabulatedScores /\ weight \in TabulatedWeights
    THEN PRODUCTS[score][weight]
    ELSE product(score, weight)

\* total after each iteration of the nested loops; the running total is
\* bound to its value before the next addition is evaluated
total_after_loops(scores_dict) ==
    LET increment(n) ==
            contribution(scores_get(scores_dict, all_indicators[n].name,
                                    DEFAULT_SCORE),
                         all_indicators[n].weight)
        total[n \in 0..Len(all_indicators)] ==
            IF n = 0 THEN << >>
            ELSE CHOOSE sum \in {dbl_add(prev, increment(n)) :
                                   prev \in {total[n - 1]}} : TRUE
    IN  total[Len(all_indicators)]

\* final_severity_index = total
final_severity_index(scores_dict) == total_after_loops(scores_dict)

\* faulty variant: the severity rescaled by 2.5
inform_score_rescaled(severity) == dbl_mul(severity, dbl_ratio(5, 2))

\* faulty variant: 2.0 is added to the severity
inform_score_added(severity) == dbl_add(severity, dbl_int(2))

\* inform_score = final_severity_index * 2.0
inform_score(severity) == dbl_mul(severity, dbl_int(2))

THRESHOLD_A == dbl_int(4)
THRESHOLD_B == dbl_ratio(5, 2)

CATEGORY_A ==
    [category |-> "A", cat_label |-> "MAJOR International",
     action |-> "IMMEDIATE MOBILISATION: Initiate assessment, stocktake inventory & emergency funds, contact international partners.",
     color |-> "#ff4b4b"]
CATEGORY_B ==
    [category |-> "B", cat_label |-> "Medium Scale",
     action |-> "WATCH LIST: Maintain contact with local partners, monitor developments for 72h.",
     color |-> "#ffa421"]
CATEGORY_C ==
    [category |-> "C", cat_label |-> "Minimal / Local",
     action |-> "MONITORING: No HQ deployment likely needed. Pray & monitor.",
     color |-> "#09ab3b"]

classify(severity) ==
    IF dbl_ge(severity, THRESHOLD_A) THEN CATEGORY_A
    ELSE IF dbl_ge(severity, THRESHOLD_B) THEN CATEGORY_B
    ELSE CATEGORY_C

\* the record returned for the total of line 287
metrics_record(severity) ==
    [severity |-> round2(severity),
     inform |-> round2(inform_score(severity)),
     category |-> classify(severity).category,
     cat_label |-> classify(severity).cat_label,
     action |-> classify(severity).action,
     color |-> classify(severity).color]

calculate_final_metrics(scores_dict) ==
    CHOOSE metrics \in {metrics_record(severity) :
                          severity \in {final_severity_index(scores_dict)}} : TRUE

(***************************************************************************)
(* The research run: fetch_ai_assessment and the normalization loop.       *)
(*                                                                         *)
(* The collaborator's reply is a text known by what robust_json_extractor  *)
(* makes of it: no text at all, a text without a JSON object, or a text    *)
(* that parses to a dict.                                                  *)
(***************************************************************************)
Text(kind, data) == [t |-> "str", kind |-> kind, data |-> data]

\* robust_json_extractor(text): the parsed dict, or None
robust_json_extractor(text) == IF text.kind = "json" THEN text.data ELSE None

\* the model call raised (both models), or returned grounding urls and a text
Raising == [raises |-> TRUE, urls |-> << >>, text |-> Text("empty", None)]
Reply(urls, text) == [raises |-> FALSE, urls |-> urls, text |-> text]

\* (data, valid_urls, raw_text_debug) as returned
fetch_ai_assessment(response) ==
    IF response.raises
    THEN [data |-> None, urls |-> << >>,
          debug |-> PyStr("Exception in fetch_ai_assessment")]
    ELSE IF response.text.kind = "empty"
    THEN [data |-> None, urls |-> response.urls,
          debug |-> PyStr("Model response contained no text (possibly tool-only call).")]
    ELSE IF robust_json_extractor(response.text) = None
    THEN [data |-> None, urls |-> response.urls,
          debug |-> PyStr("Could not parse JSON from model, even after lenient parsing.")]
    ELSE [data |-> robust_json_extractor(response.text), urls |-> response.urls,
          debug |-> response.text]

EmptyScores == [key \in {} |-> 0]

\* d[key] = value on a score mapping
scores_set(scores_dict, key, value) ==
    [name \in DOMAIN scores_dict \cup {key} |->
       IF name = key THEN value ELSE scores_dict[name]]

\* lines 500-501: [exc |-> "", n |-> score_val], or the exception the try catches
score_val(ai_val_obj) ==
    LET parsed(run) ==
            IF run = << >> THEN [exc |-> "AttributeError", n |-> 0]
            ELSE [exc |-> "", n |-> int_of_digits(run)]
    IN  IF ~IsDict(ai_val_obj) THEN [exc |-> "AttributeError", n |-> 0]
        ELSE parsed(first_digit_run(
                      py_str(dict_get(ai_val_obj, PyStr("score"),
                                      PyInt(DEFAULT_SCORE)))))

\* one iteration of the loop of line 496 on [scores, exc]
normalize_entry(state, entry) ==
    LET store(matched_key, extracted) ==
            IF matched_key = None \/ extracted.exc # "" THEN state
            ELSE [state EXCEPT
                    !.scores = scores_set(state.scores, matched_key.s, extracted.n)]
    IN  IF state.exc # "" THEN state
        ELSE IF match_raises(entry.k)
        THEN [state EXCEPT !.exc = "AttributeError"]
        ELSE store(match_score_key(entry.k, framework_keys), score_val(entry.v))

\* lines 496-504 on the session's scores: the scores written, and the
\* exception that ended the loop ("" when it ran to its end)
normalization_loop(scores_dict, data) ==
    LET scores_value == dict_get(data, PyStr("scores"), PyDict(<< >>))
        after[n \in 0..Len(scores_value.items)] ==
            IF n = 0 THEN [scores |-> scores_dict, exc |-> ""]
            ELSE CHOOSE next \in {normalize_entry(state, scores_value.items[n]) :
                                    state \in {after[n - 1]}} : TRUE
    IN  IF ~IsDict(scores_value)
        THEN [scores |-> scores_dict, exc |-> "AttributeError"]
        ELSE after[Len(scores_value.items)]

(***************************************************************************)
(* The render pass, lines 510-616.                                         *)
(***************************************************************************)
SLIDER_MIN == 1
SLIDER_MAX == 5

NoMove == [name |-> "", value |-> 0]

\* lines 516-551: the summary and the key figures are read with .get
header_exc(data) ==
    IF IsDict(dict_get(data, PyStr("summary"), PyDict(<< >>)))
       /\ IsDict(dict_get(data, PyStr("key_figures"), PyDict(<< >>)))
    THEN "" ELSE "AttributeError"

\* lines 561-565: the first raw entry that matches the indicator
ai_data_lookup(scores_value, indicator_name) ==
    LET stops_at(hits) ==
            IF hits = {} THEN [exc |-> "", key |-> None, ai_data |-> PyDict(<< >>)]
            ELSE IF match_raises(scores_value.items[min_of(hits)].k)
            THEN [exc |-> "AttributeError", key |-> None, ai_data |-> None]
            ELSE [exc |-> "", key |-> scores_value.items[min_of(hits)].k,
                  ai_data |-> scores_value.items[min_of(hits)].v]
    IN  IF ~IsDict(scores_value)
        THEN [exc |-> "AttributeError", key |-> None, ai_data |-> None]
        ELSE stops_at({i \in 1..Len(scores_value.items) :
                         \/ match_raises(scores_value.items[i].k)
                         \/ match_score_key(scores_value.items[i].k,
                                            << indicator_name >>)
                            = PyStr(indicator_name)})

\* st.slider("Score", 1, 5, value): the value the widget returns; the operator
\* moved at most one slider in this interaction, every other slider returns
\* the value it is given
slider(indicator_name, value, moved) ==
    IF value < SLIDER_MIN \/ value > SLIDER_MAX
    THEN [exc |-> "StreamlitAPIException", n |-> 0]
    ELSE IF moved.name = indicator_name THEN [exc |-> "", n |-> moved.value]
    ELSE [exc |-> "", n |-> value]

\* lines 561-595 for one indicator, on [scores, exc, evidence].  The
\* evidence of lines 577-578 is on the page before the slider of line 590
\* is drawn: it stays there when int() or st.slider raises.
render_indicator(state, indicator_name, data, moved) ==
    LET raise(exc) == [state EXCEPT !.exc = exc]
        shown(found, drawn) ==
            Append(state.evidence,
                   [indicator |-> indicator_name, key |-> found.key,
                    ai_data |-> found.ai_data, slider |-> drawn])
        show(found, new_val) ==
            IF new_val.exc # ""
            THEN [state EXCEPT !.exc = new_val.exc,
                               !.evidence = shown(found, FALSE)]
            ELSE [scores |-> scores_set(state.scores, indicator_name, new_val.n),
                  exc |-> "",
                  evidence |-> shown(found, TRUE)]
        widget(found, current_val) ==
            IF current_val.exc # ""
            THEN [state EXCEPT !.exc = current_val.exc,
                               !.evidence = shown(found, FALSE)]
            ELSE show(found, slider(indicator_name, current_val.n, moved))
        column3(found) ==
            IF found.exc # "" THEN raise(found.exc)
            ELSE IF ~IsDict(found.ai_data) THEN raise("AttributeError")
            ELSE widget(found,
                        IF indicator_name \in DOMAIN state.scores
                        THEN py_int(PyInt(state.scores[indicator_name]))
                        ELSE py_int(dict_get(found.ai_data, PyStr("score"),
                                             PyInt(DEFAULT_SCORE))))
    IN  IF state.exc # "" THEN state
        ELSE column3(ai_data_lookup(dict_get(data, PyStr("scores"), PyDict(<< >>)),
                                    indicator_name))

\* lines 511-596: the scores after the sliders, the evidence shown and the
\* exception that ended the pass ("" when it ran to its end)
render_loop(scores_dict, data, moved) ==
    LET after[n \in 0..Len(framework_keys)] ==
            IF n = 0
            THEN [scores |-> scores_dict, exc |-> header_exc(data), evidence |-> << >>]
            ELSE CHOOSE next \in {render_indicator(state, framework_keys[n], data, moved) :
                                    state \in {after[n - 1]}} : TRUE
    IN  after[Len(framework_keys)]

(***************************************************************************)
(* What the collaborator can answer.  The scores of a reply are up to      *)
(* MaxEntries entries of RawEntries in any order, the whole rubric with    *)
(* one score, a list, or nothing at all.                                   *)
(***************************************************************************)
MaxEntries == 2
MaxInteractions == 2
MaxPatches == 2

URL_A == "https://reliefweb.int/report/a"
URL_B == "https://reliefweb.int/report/b"

scored(value) == PyDict(<< item(PyStr("score"), value) >>)

RawEntries ==
    << item(PyStr("1.2 Fatalities"),
            PyDict(<< item(PyStr("score"), PyInt(5)),
                      item(PyStr("extracted_value"), PyStr("410 deaths")),
                      item(PyStr("justification"), PyStr("ReliefWeb sitrep")) >>)),
       item(PyStr("fatalities"), scored(PyInt(1))),
       item(PyStr("security"), scored(PyStr("4 (severe)"))),
       item(PyStr("1.1 People Affected"), scored(PyStr("unknown"))),
       item(PyStr("3.4 Communications"), scored(PyInt(7))),
       item(PyStr("Unrelated key"), scored(PyInt(2))),
       item(PyStr("5.1 Local Partnerships"), PyInt(5)),
       item(PyInt(12), scored(PyInt(4))),
       item(PyStr("2.3 Displacement"),
            PyDict(<< item(PyStr("justification"), PyStr("no figure found")) >>)),
       item(PyStr("affected"), scored(PyInt(2))) >>

Injective(f) == \A i, j \in DOMAIN f : f[i] = f[j] => i = j

\* the dicts of up to MaxEntries entries
ScoresMappings ==
    {PyDict([i \in DOMAIN order |-> RawEntries[order[i]]]) :
       order \in {f \in UNION {[1..n -> 1..Len(RawEntries)] : n \in 0..MaxEntries} :
                    Injective(f)}}

FullRubric(score) ==
    PyDict([i \in 1..Len(framework_keys) |->
              item(PyStr(framework_keys[i]), scored(PyInt(score)))])

SUMMARY ==
    item(PyStr("summary"),
         PyDict(<< item(PyStr("title"), PyStr("Cyclone Ditwah")) >>))

Payload(scores_value) == PyDict(<< SUMMARY, item(PyStr("scores"), scores_value) >>)

Payloads ==
    {PyDict(<< >>), PyDict(<< SUMMARY >>), Payload(PyList), Payload(FullRubric(4))}
    \cup {Payload(mapping) : mapping \in ScoresMappings}

Responses ==
    {Raising}
    \cup {Reply(urls, Text(kind, None)) :
            urls \in {<< >>, << URL_B >>}, kind \in {"empty", "prose"}}
    \cup {Reply(<< URL_A >>, Text("json", data)) : data \in Payloads}

\* the sliders the operator moves in the model
MovableIndicators == {framework_keys[2], framework_keys[12], framework_keys[14]}

(***************************************************************************)
(* The arguments calculate_final_metrics is applied to on its own: one     *)
(* score per dimension, or the empty mapping or one score everywhere with  *)
(* up to MaxPatches keys set (to 0..MaxScoreInput), deleted or added.      *)
(***************************************************************************)
EXTRA_KEY == "6.1 Donor Fatigue"

canonical == SeqRange(framework_keys)

dimension_of(name) ==
    CHOOSE d \in 1..Len(SCORING_FRAMEWORK) :
      \E i \in 1..Len(SCORING_FRAMEWORK[d].indicators) :
        SCORING_FRAMEWORK[d].indicators[i].name = name

dimension_scores(by_dimension) ==
    [name \in canonical |-> by_dimension[dimension_of(name)]]

uniform(score) == [name \in canonical |-> score]

PatchKeys == {framework_keys[1], framework_keys[6], framework_keys[14], EXTRA_KEY}

Keep == [op |-> "keep", value |-> 0]
Delete == [op |-> "del", value |-> 0]
Assign(value) == [op |-> "set", value |-> value]

Patches ==
    {patch \in [PatchKeys -> {Keep, Delete} \cup {Assign(value) : value \in 0..MaxScoreInput}] :
       Cardinality({key \in PatchKeys : patch[key] # Keep}) <= MaxPatches}

patched(base, patch) ==
    LET kept == {key \in DOMAIN base \cup PatchKeys :
                   key \in PatchKeys =>
                     \/ patch[key].op = "set"
                     \/ patch[key].op = "keep" /\ key \in DOMAIN base}
    IN  [key \in kept |->
           IF key \in PatchKeys /\ patch[key].op = "set"
           THEN patch[key].value ELSE base[key]]

EngineInputs ==
    {dimension_scores(by_dimension) :
       by_dimension \in [1..Len(SCORING_FRAMEWORK) -> SLIDER_MIN..SLIDER_MAX]}
    \cup {patched(base, patch) :
            base \in {EmptyScores} \cup {uniform(score) : score \in SLIDER_MIN..SLIDER_MAX},
            patch \in Patches}

(***************************************************************************)
(* The session.  st.session_state holds assessment_data, valid_urls,       *)
(* current_scores and raw_debug.  Every interaction runs the script from   *)
(* the top: the handler of the research button (lines 482-508), then, at   *)
(* pc = "render", the render pass (lines 510-616).  An exception ends the  *)
(* script run where it is raised; what was written before stays.           *)
(*                                                                         *)
(* scores_arg, severity_raw and result_record belong to EngineSpec, which  *)
(* applies calculate_final_metrics to the arguments of EngineInputs.       *)
(* match_key_arg, match_result and match_written belong to MatchSpec,      *)
(* which applies match_score_key and lines 497-502 to the keys of          *)
(* MatchKeys.                                                              *)
(***************************************************************************)
VARIABLES assessment_data, valid_urls, current_scores, raw_debug,
          pc, run_outcome, script_exception, moved_slider, interactions,
          evidence_shown, metrics_shown,
          scores_arg, severity_raw, result_record,
          match_key_arg, match_result, match_written

session == << assessment_data, valid_urls, current_scores, raw_debug >>
script == << pc, run_outcome, script_exception, moved_slider, interactions >>
page == << evidence_shown, metrics_shown >>
engine == << scores_arg, severity_raw, result_record >>
matcher == << match_key_arg, match_result, match_written >>
vars == << session, script, page, engine, matcher >>

\* match_score_key has not been called
NotCalled == [t |-> "not called"]

EngineIdle ==
    /\ scores_arg = EmptyScores
    /\ severity_raw = << >>
    /\ result_record = None

MatcherIdle ==
    /\ match_key_arg = ""
    /\ match_result = NotCalled
    /\ match_written = EmptyScores

\* lines 473-480, before the first interaction
SessionInit ==
    /\ assessment_data = None
    /\ valid_urls = << >>
    /\ current_scores = EmptyScores
    /\ raw_debug = PyStr("")
    /\ pc = "wait"
    /\ run_outcome = "none"
    /\ script_exception = ""
    /\ moved_slider = NoMove
    /\ interactions = 0
    /\ evidence_shown = << >>
    /\ metrics_shown = None

Init ==
    /\ SessionInit
    /\ EngineIdle
    /\ MatcherIdle

\* a script run starts on an empty page
Interaction ==
    /\ pc = "wait"
    /\ interactions < MaxInteractions
    /\ interactions' = interactions + 1
    /\ evidence_shown' = << >>
    /\ metrics_shown' = None

\* lines 490-504
Normalized(data, done) ==
    /\ assessment_data' = data
    /\ current_scores' = done.scores
    /\ script_exception' = done.exc
    /\ run_outcome' = IF done.exc = "" THEN "normalized" ELSE "aborted"
    /\ pc' = IF done.exc = "" THEN "render" ELSE "wait"

\* lines 484-508
Handler(fetched) ==
    /\ raw_debug' = fetched.debug
    /\ valid_urls' = fetched.urls
    /\ IF fetched.data # None
       THEN Normalized(fetched.data, normalization_loop(current_scores, fetched.data))
       ELSE /\ UNCHANGED << assessment_data, current_scores >>
            /\ script_exception' = ""
            /\ run_outcome' = "failed"
            /\ pc' = "render"

\* the operator presses "Start Deep Research" with a query
StartDeepResearch(response) ==
    /\ Interaction
    /\ Handler(fetch_ai_assessment(response))
    /\ moved_slider' = NoMove
    /\ UNCHANGED << engine, matcher >>

\* any other interaction (the button with an empty query, an expander)
Rerun ==
    /\ Interaction
    /\ pc' = "render"
    /\ run_outcome' = "none"
    /\ script_exception' = ""
    /\ moved_slider' = NoMove
    /\ UNCHANGED << session, engine, matcher >>

\* the operator moves a slider of the page to another value
MoveSlider(indicator_name, value) ==
    /\ Interaction
    /\ \E i \in 1..Len(evidence_shown) :
         evidence_shown[i].indicator = indicator_name /\ evidence_shown[i].slider
    /\ indicator_name \in DOMAIN current_scores
    /\ value # current_scores[indicator_name]
    /\ moved_slider' = [name |-> indicator_name, value |-> value]
    /\ pc' = "render"
    /\ run_outcome' = "none"
    /\ script_exception' = ""
    /\ UNCHANGED << session, engine, matcher >>

\* lines 511-610
Shown(done) ==
    /\ current_scores' = done.scores
    /\ evidence_shown' = done.evidence
    /\ script_exception' = done.exc
    /\ metrics_shown' = IF done.exc = "" THEN calculate_final_metrics(done.scores)
                        ELSE None

\* line 510 and the render pass
Render ==
    /\ pc = "render"
    /\ pc' = "wait"
    /\ moved_slider' = NoMove
    /\ IF py_bool(assessment_data)
       THEN Shown(render_loop(current_scores, assessment_data, moved_slider))
       ELSE UNCHANGED << current_scores, evidence_shown, script_exception,
                         metrics_shown >>
    /\ UNCHANGED << assessment_data, valid_urls, raw_debug, run_outcome,
                    interactions, engine, matcher >>

Next ==
    \/ \E response \in Responses : StartDeepResearch(response)
    \/ Rerun
    \/ \E indicator_name \in MovableIndicators, value \in SLIDER_MIN..SLIDER_MAX :
         MoveSlider(indicator_name, value)
    \/ Render

Spec == Init /\ [][Next]_vars

(***************************************************************************)
(* calculate_final_metrics applied to an argument of EngineInputs:         *)
(* severity_raw is final_severity_index at line 287, result_record the     *)
(* dict returned.                                                          *)
(***************************************************************************)
EngineInit ==
    /\ SessionInit
    /\ MatcherIdle
    /\ scores_arg \in EngineInputs
    /\ severity_raw = << >>
    /\ result_record = None

Calculate ==
    /\ result_record = None
    /\ severity_raw' = final_severity_index(scores_arg)
    /\ result_record' = metrics_record(severity_raw')
    /\ UNCHANGED << scores_arg, session, script, page, matcher >>

EngineNext == Calculate

EngineSpec == EngineInit /\ [][EngineNext]_vars

(***************************************************************************)
(* match_score_key applied to a raw key of MatchKeys and the               *)
(* framework_keys of line 492, then lines 498-502 on an empty mapping:     *)
(* match_result is matched_key at line 497, match_written the mapping      *)
(* after the entry (whose score is 4).                                     *)
(***************************************************************************)
\* the raw keys: for every canonical identifier the identifier, its number,
\* its name and the identifier between blanks; then keys in other letter
\* cases, with other dots, matching several identifiers or none
MatchKeys ==
    UNION {{fk, SubSeq(fk, 1, 3), SubSeq(fk, 5, Len(fk)), " " \o fk \o "\t"} :
             fk \in canonical}
    \cup {"", " ", ".", "people", "PEOPLE", "affected", "security", "Security",
          "capacity", "score", "1", "1.", "11", "2.2", "22 wash", "w.a.s.h",
          "W.A.S.H / NFI", "1.2 fatalities", "1.2 FATALITIES", "12 Fatalities",
          "fatalities.", " fatalities", "fatalities ", "fatal ities",
          "Unrelated key", "6.1 Donor Fatigue", "deaths", "un/ingo",
          "(roads/airports)", "tzu chi", "Tzu  Chi", "3.2. Security",
          "3.2 Security 2025", "health system", "5", "5.3", "&", "ipc"}

MatchInit ==
    /\ SessionInit
    /\ EngineIdle
    /\ match_key_arg \in MatchKeys
    /\ match_result = NotCalled
    /\ match_written = EmptyScores

Match ==
    /\ match_result = NotCalled
    /\ match_result' = match_score_key(PyStr(match_key_arg), framework_keys)
    /\ match_written' =
         normalize_entry([scores |-> EmptyScores, exc |-> ""],
                         item(PyStr(match_key_arg), scored(PyInt(4)))).scores
    /\ UNCHANGED << match_key_arg, session, script, page, engine >>

MatchNext == Match

MatchSpec == MatchInit /\ [][MatchNext]_vars

(***************************************************************************)
(* The claims about the research run.                                      *)
(***************************************************************************)
\* the handler has just stored a payload and its loop ran to its end
AfterNormalization == pc = "render" /\ run_outcome = "normalized"

\* the raw scores of the payload in the session
raw_scores == dict_get(assessment_data, PyStr("scores"), PyDict(<< >>))

\* the canonical identifier a raw entry resolves to, or None
resolved(entry) ==
    IF IsStr(entry.k) THEN match_score_key(entry.k, framework_keys) ELSE None

\* the score the engine reads for an indicator
effective(scores_dict, name) ==
    IF name \in DOMAIN scores_dict THEN scores_dict[name] ELSE 3

\* the integer the first run of digits of a raw score spells, -1 without digits
extracted(raw) ==
    IF first_digit_run(py_str(raw)) = << >> THEN -1
    ELSE int_of_digits(first_digit_run(py_str(raw)))

\* C1: once the normalization step of a research run has completed,
\* current_scores has exactly the 20 canonical indicators as its keys and
\* every value is an integer from 1 to 5.
NormalizerTotality ==
    AfterNormalization =>
      /\ DOMAIN current_scores = canonical
      /\ \A name \in canonical : current_scores[name] \in 1..5

\* C2: after the first research run of a session, an indicator that exactly
\* one raw entry with a "score" field resolves to holds the raw value if it
\* is an integer from 1 to 5, else the integer of its first run of digits if
\* that is from 1 to 5; otherwise nothing is written for the indicator (it
\* falls back to the default).
ScoreExtraction ==
    (AfterNormalization /\ interactions = 1) =>
      \A i \in 1..Len(raw_scores.items) :
        LET entry == raw_scores.items[i]
            raw == dict_get(entry.v, PyStr("score"), None)
            name == resolved(entry).s
        IN  (/\ resolved(entry) # None
             /\ IsDict(entry.v)
             /\ raw # None
             /\ \A j \in 1..Len(raw_scores.items) :
                  resolved(raw_scores.items[j]) = resolved(entry) => j = i)
            => IF IsInt(raw) /\ raw.n \in 1..5
               THEN name \in DOMAIN current_scores /\ current_scores[name] = raw.n
               ELSE IF extracted(raw) \in 1..5
               THEN name \in DOMAIN current_scores
                    /\ current_scores[name] = extracted(raw)
               ELSE name \notin DOMAIN current_scores

\* C3: when the raw scores hold a key identical to a canonical identifier
\* with score 5 and another key that resolves to the same identifier with
\* score 1, the indicator is 5 after normalization, in whichever order the
\* two entries come.
ExactMatchPrecedence ==
    AfterNormalization =>
      \A i, j \in 1..Len(raw_scores.items) :
        LET exact == raw_scores.items[i]
            fuzzy == raw_scores.items[j]
        IN  (/\ IsStr(exact.k) /\ exact.k.s \in canonical
             /\ fuzzy.k # exact.k
             /\ resolved(fuzzy) = exact.k
             /\ IsDict(exact.v) /\ IsDict(fuzzy.v)
             /\ dict_get(exact.v, PyStr("score"), None) = PyInt(5)
             /\ dict_get(fuzzy.v, PyStr("score"), None) = PyInt(1))
            => effective(current_scores, exact.k.s) = 5

\* C4: after the normalization of a research run, every indicator that no
\* raw entry of this run resolves to has the default score 3, whatever an
\* earlier run or a slider had set it to.
DefaultFallback ==
    AfterNormalization =>
      \A name \in canonical :
        (\A i \in 1..Len(raw_scores.items) :
           resolved(raw_scores.items[i]) # PyStr(name))
        => effective(current_scores, name) = 3

\* C5: no exception ends the normalization step of a research run, and an
\* entry that fails does not keep a later well-formed entry from being
\* stored: the last such entry of an indicator decides its score.
NoExceptionEscapesNormalization ==
    /\ run_outcome # "aborted"
    /\ (AfterNormalization \/ run_outcome = "aborted") /\ IsDict(raw_scores)
       => \A i \in 1..Len(raw_scores.items) :
            LET entry == raw_scores.items[i]
            IN  (/\ resolved(entry) # None
                 /\ IsDict(entry.v)
                 /\ extracted(dict_get(entry.v, PyStr("score"), PyInt(3))) >= 0
                 /\ \A j \in (i + 1)..Len(raw_scores.items) :
                      resolved(raw_scores.items[j]) # resolved(entry))
                => effective(current_scores, resolved(entry).s)
                   = extracted(dict_get(entry.v, PyStr("score"), PyInt(3)))

\* C6: a research run that fails (fetch_ai_assessment returns no data)
\* leaves assessment_data, current_scores, valid_urls and raw_debug as they
\* were before the run.
FailureLeavesSessionUntouched ==
    [][(pc = "wait" /\ run_outcome' = "failed") => UNCHANGED session]_vars

(***************************************************************************)
(* The claims about calculate_final_metrics.                               *)
(***************************************************************************)
\* the sum over all indicators of score x weight, in thousandths
weighted_sum(scores_dict) ==
    LET partial[n \in 0..Len(all_indicators)] ==
            IF n = 0 THEN 0
            ELSE partial[n - 1]
                 + effective(scores_dict, all_indicators[n].name)
                   * all_indicators[n].weight
    IN  partial[Len(all_indicators)]

\* |a - b| <= slack on the naturals of any size
within(a, b, slack) ==
    big_cmp(a, big_add(b, slack)) <= 0 /\ big_cmp(b, big_add(a, slack)) <= 0

\* C7: the severity index calculate_final_metrics computes is the sum over
\* all indicators of score x weight, divided by 5, with score 3 for an
\* indicator missing from the mapping and whatever other keys the mapping
\* has: the double is within 2^-40 of that quotient, the value returned
\* within half a hundredth of it.
SeverityFormula ==
    result_record # None =>
      /\ within(big_mul_small(severity_raw, 5 * WEIGHT_SCALE),
                big_shl(big(weighted_sum(scores_arg)), DBL_UNIT),
                big_shl(big(5 * WEIGHT_SCALE), DBL_UNIT - 40))
      /\ result_record.severity * 50 - weighted_sum(scores_arg) \in -25..25

SeverityFormulaWitness ==
    /\ result_record # None
    /\ EXTRA_KEY \in DOMAIN scores_arg
    /\ framework_keys[1] \notin DOMAIN scores_arg
    /\ effective(scores_arg, framework_keys[6]) = 5

AllScored(scores_dict, score) ==
    \A name \in canonical : effective(scores_dict, name) = score

\* C8: for a mapping whose indicators are all scored from 1 to 5 (3 when
\* missing), the severity returned lies in [1.0, 5.0] and the INFORM
\* equivalent in [2.0, 10.0]; the lower bounds are returned exactly when all
\* scores are 1, the upper bounds exactly when all are 5.
RangeBound ==
    (/\ result_record # None
     /\ \A name \in canonical : effective(scores_arg, name) \in 1..5)
    => /\ result_record.severity \in 100..500
       /\ result_record.inform \in 200..1000
       /\ result_record.severity = 100 <=> AllScored(scores_arg, 1)
       /\ result_record.inform = 200 <=> AllScored(scores_arg, 1)
       /\ result_record.severity = 500 <=> AllScored(scores_arg, 5)
       /\ result_record.inform = 1000 <=> AllScored(scores_arg, 5)

RangeBoundWitness ==
    /\ result_record # None
    /\ AllScored(scores_arg, 5)
    /\ result_record.severity = 500
    /\ result_record.inform = 1000

\* the sum of the weights of a sequence of indicators, in thousandths
weight_sum(indicators) ==
    LET partial[n \in 0..Len(indicators)] ==
            IF n = 0 THEN 0 ELSE partial[n - 1] + indicators[n].weight
    IN  partial[Len(indicators)]

\* C9 as stated: in each of the 5 dimensions of the SCORING_FRAMEWORK a
\* result is computed from, the weights of the indicators sum to 1.0.
DimensionWeightsSumToOne ==
    result_record # None =>
      \A d \in 1..Len(SCORING_FRAMEWORK) :
        weight_sum(SCORING_FRAMEWORK[d].indicators) = WEIGHT_SCALE

\* C9: the weights of the 20 indicators of the SCORING_FRAMEWORK a result is
\* computed from sum to 5.0 over the whole rubric; the dimensions weigh 1.5,
\* 1.5, 0.5, 1.0 and 0.5.
GlobalWeightsSumToFive ==
    result_record # None =>
      /\ Len(all_indicators) = 20
      /\ weight_sum(all_indicators) = 5 * WEIGHT_SCALE
      /\ [d \in 1..Len(SCORING_FRAMEWORK) |->
            weight_sum(SCORING_FRAMEWORK[d].indicators)]
         = << 1500, 1500, 500, 1000, 500 >>

GlobalWeightsWitness ==
    /\ scores_arg = dimension_scores(<< 5, 1, 1, 1, 1 >>)
    /\ result_record # None
    /\ result_record.severity = 220

\* C10: the category is A exactly when the unrounded severity index is at
\* least 4.0, B exactly when it is at least 2.5 and below 4.0, C exactly
\* when it is below 2.5; label, action and color are those of the category
\* (A red, B orange, C green); a mapping with every indicator at 4 is A.
ClassificationBoundaries ==
    result_record # None =>
      LET at_least_4 == big_cmp(severity_raw, big_shl(big(4), DBL_UNIT)) >= 0
          at_least_2_5 == big_cmp(severity_raw, big_shl(big(5), DBL_UNIT - 1)) >= 0
      IN  /\ result_record.category = "A" <=> at_least_4
          /\ result_record.category = "B" <=> (at_least_2_5 /\ ~at_least_4)
          /\ result_record.category = "C" <=> ~at_least_2_5
          /\ result_record.category = "A" =>
               /\ result_record.cat_label = "MAJOR International"
               /\ result_record.color = "#ff4b4b"
               /\ result_record.action = CATEGORY_A.action
          /\ result_record.category = "B" =>
               /\ result_record.cat_label = "Medium Scale"
               /\ result_record.color = "#ffa421"
               /\ result_record.action = CATEGORY_B.action
          /\ result_record.category = "C" =>
               /\ result_record.cat_label = "Minimal / Local"
               /\ result_record.color = "#09ab3b"
               /\ result_record.action = CATEGORY_C.action
          /\ AllScored(scores_arg, 4) => result_record.category = "A"

ClassificationWitness ==
    /\ result_record # None
    /\ severity_raw = big_shl(big(4), DBL_UNIT)
    /\ result_record.category = "A"

\* every canonical indicator is in the mapping with a score from 1 to 5
ValidScores(scores_dict) ==
    /\ canonical \subseteq DOMAIN scores_dict
    /\ \A name \in canonical : scores_dict[name] \in 1..5

\* C11 as stated: in every result record the INFORM equivalent is twice the
\* severity, both as returned after rounding to two decimals.
InformIsTwiceReportedSeverity ==
    result_record # None => result_record.inform = 2 * result_record.severity

\* C11: the INFORM equivalent returned is twice the unrounded severity index,
\* rounded to two decimals on its own: it is within half a hundredth of
\* twice the weighted sum divided by 5, and so differs from twice the
\* severity returned by at most one hundredth.
InformIsRoundedDouble ==
    result_record # None =>
      /\ result_record.inform * 50 - 2 * weighted_sum(scores_arg) \in -25..25
      /\ result_record.inform - 2 * result_record.severity \in -1..1

InformWitness ==
    /\ result_record # None
    /\ ValidScores(scores_arg)
    /\ result_record.inform # 2 * result_record.severity

\* C13: for scores from 1 to 5, the two-decimal severity of the result
\* record falls in the band of the record's category: A exactly when the
\* severity returned is at least 4.0, B exactly when it is at least 2.5 and
\* below 4.0, C exactly when it is below 2.5.
ReportedSeverityAgreesWithCategory ==
    (/\ result_record # None
     /\ \A name \in canonical : effective(scores_arg, name) \in 1..5)
    => /\ result_record.category = "A" <=> result_record.severity >= 400
       /\ result_record.category = "B" <=> result_record.severity \in 250..399
       /\ result_record.category = "C" <=> result_record.severity < 250

(***************************************************************************)
(* The claims about match_score_key.                                       *)
(***************************************************************************)
\* the positions in rubric order of the identifiers whose lower-cased,
\* dot-stripped form contains the lower-cased, dot-stripped, trimmed key
tier2_positions(key) ==
    {p \in 1..Len(framework_keys) :
       str_in(str_strip(str_remove_dots(str_lower(chars(key)))),
              str_remove_dots(str_lower(chars(framework_keys[p]))))}

\* the positions of the identifiers whose lower-cased form contains the
\* lower-cased key
tier3_positions(key) ==
    {p \in 1..Len(framework_keys) :
       str_in(str_lower(chars(key)), str_lower(chars(framework_keys[p])))}

\* C12: match_score_key returns the raw key if it is a canonical identifier;
\* else the first identifier in rubric order that contains it under tier 2
\* (lower-cased, dot-stripped, key trimmed); else the first that contains it
\* under tier 3 (lower-cased); else None, and then the entry writes nothing.
\* An entry that matches writes its score under that one identifier only.
ThreeTierMatching ==
    match_result # NotCalled =>
      /\ match_result =
           IF match_key_arg \in canonical THEN PyStr(match_key_arg)
           ELSE IF tier2_positions(match_key_arg) # {}
           THEN PyStr(framework_keys[min_of(tier2_positions(match_key_arg))])
           ELSE IF tier3_positions(match_key_arg) # {}
           THEN PyStr(framework_keys[min_of(tier3_positions(match_key_arg))])
           ELSE None
      /\ match_result = None => match_written = EmptyScores
      /\ match_result # None =>
           /\ match_result.s \in canonical
           /\ DOMAIN match_written = {match_result.s}
           /\ match_written[match_result.s] = 4

\* a key that two identifiers contain resolves to the first in rubric order
ThreeTierWitness ==
    /\ match_key_arg = "PEOPLE"
    /\ Cardinality(tier2_positions(match_key_arg)) = 2
    /\ match_result = PyStr(framework_keys[1])
    /\ DOMAIN match_written = {framework_keys[1]}

(***************************************************************************)
(* The claims about the render pass.                                       *)
(***************************************************************************)
\* C14: the raw entry whose evidence the render pass shows under an
\* indicator is an entry that normalization resolved to that indicator
\* (match_score_key on all canonical identifiers returns it), and no raw
\* entry is shown under two indicators.
EvidenceMatchesScore ==
    \A i \in 1..Len(evidence_shown) :
      evidence_shown[i].key # None =>
        /\ resolved([k |-> evidence_shown[i].key]) = PyStr(evidence_shown[i].indicator)
        /\ \A j \in 1..Len(evidence_shown) :
             evidence_shown[j].key = evidence_shown[i].key => j = i

=============================================================================
